---- MODULE Spec2Model ----
(***************************************************************************)
(* Model of Multilabel_classification/feature_network.py: the 90/10        *)
(* partition built by FeatureNetwork.__init__, the train / valid / test    *)
(* loops with their loss and F1 bookkeeping, and the __main__ driver       *)
(* (epoch loop, StepLR scheduler, results accumulator, test, plot, save).  *)
(*                                                                         *)
(* Real numbers are kept exact: a loss average or an F1 value is a         *)
(* normalised fraction <<num, den>>, the learning rate is an integer       *)
(* number of 1e-9 units.  The network's forward pass and the element-wise  *)
(* cross entropy are opaque numeric code; they are represented by fixed    *)
(* integer-valued functions of (weights, input), so that everything the    *)
(* loops do with their values (sum, divide, round, concatenate) is         *)
(* computed as the code computes it.                                       *)
(***************************************************************************)
EXTENDS Integers, Sequences, FiniteSets, TLC

(***************************************************************************)
(* Bounds of the model.                                                    *)
(***************************************************************************)
\* dataset sizes 0..SmallN are all explored (single-batch runs)
SmallN == 24
\* a dataset size whose training partition needs two batches
MidN == 73
\* a dataset size whose validation partition needs two batches
LargeN == 650
\* test-set sizes 0..SmallM, and one test set of several batches
SmallM == 2
LargeM == 130
\* the epoch loop bound ranges over 1..MaxEpochs for the dataset of size LongRunN
MaxEpochs == 26
LongRunN == 2
\* every other dataset size runs 1..ShortEpochs epochs
ShortEpochs == 2
\* initial weight draws 0..MaxSeed
MaxSeed == 1
\* the sampler's random order is one of the rotations 0..MaxRot, read forwards
\* or backwards
MaxRot == 1
\* labels.shape[1] of the modelled datasets
NLabels == 2

(***************************************************************************)
(* Program constants.                                                      *)
(***************************************************************************)
batch_size == 64
batch_size_eval == 64
\* lr=1e-3, in units of 1e-9
LR0 == 1000000
step_size == 25
\* gamma=0.1 as a divisor
GammaInv == 10

(***************************************************************************)
(* Exact arithmetic helpers.                                               *)
(***************************************************************************)
Min(a, b) == IF a < b THEN a ELSE b

RECURSIVE GCD(_, _)
GCD(a, b) == IF b = 0 THEN a ELSE GCD(b, a % b)

\* the fraction n/d (d > 0, n >= 0) in lowest terms
Rat(n, d) == LET g == GCD(n, d) IN <<n \div g, d \div g>>

RatAdd(a, b) == Rat(a[1] * b[2] + b[1] * a[2], a[2] * b[2])

RECURSIVE RatSum(_)
RatSum(s) == IF s = <<>> THEN <<0, 1>> ELSE RatAdd(Head(s), RatSum(Tail(s)))

RECURSIVE SumSeq(_)
SumSeq(s) ==
    IF Len(s) = 0 THEN 0
    ELSE IF Len(s) = 1 THEN s[1]
    ELSE LET h == Len(s) \div 2
         IN  SumSeq(SubSeq(s, 1, h)) + SumSeq(SubSeq(s, h + 1, Len(s)))

RECURSIVE Concat(_)
Concat(ss) == IF ss = <<>> THEN <<>> ELSE Head(ss) \o Concat(Tail(ss))

Range(s) == {s[i] : i \in 1..Len(s)}

(***************************************************************************)
(* int(len(inputs) * 0.90): the product is an IEEE-754 double.  0.90 is    *)
(* the double 8106479329266893 * 2^-53; the exact product is rounded to 53 *)
(* significant bits (nearest, ties to even) and int() truncates it.  The   *)
(* 53-bit mantissa is held in 16-bit limbs, least significant first.       *)
(***************************************************************************)
Base == 65536
Mant090 == <<52429, 52428, 52428, 28>>

RECURSIVE Carry(_, _)
Carry(limbs, c) ==
    IF limbs = <<>> THEN (IF c = 0 THEN <<>> ELSE <<c>>)
    ELSE <<(Head(limbs) + c) % Base>> \o Carry(Tail(limbs), (Head(limbs) + c) \div Base)

MulSmall(n, limbs) == Carry([i \in 1..Len(limbs) |-> n * limbs[i]], 0)

RECURSIVE BitLen(_)
BitLen(k) == IF k = 0 THEN 0 ELSE 1 + BitLen(k \div 2)

RECURSIVE Pow2(_)
Pow2(k) == IF k = 0 THEN 1 ELSE 2 * Pow2(k - 1)

\* the limbs above bit 48 as one number
Top(X) == X[4] + (IF Len(X) > 4 THEN X[5] * Base ELSE 0)

\* round the integer X (limbs) to 53 significant bits, ties to even
RoundTo53(X) ==
    LET s == IF BitLen(Top(X)) > 5 THEN BitLen(Top(X)) - 5 ELSE 0
    IN  IF s = 0 THEN X
        ELSE LET unit == Pow2(s)
                 r    == X[1] % unit
                 kept == X[1] - r
                 odd  == (X[1] \div unit) % 2 = 1
                 up   == (2 * r > unit) \/ (2 * r = unit /\ odd)
             IN  Carry([X EXCEPT ![1] = kept], IF up THEN unit ELSE 0)

\* the same product with 0.90 taken as the double just below nine tenths
IntTimesBelow090(n) ==
    IF n = 0 THEN 0
    ELSE Top(RoundTo53(MulSmall(n, [Mant090 EXCEPT ![1] = @ - 1]))) \div 32

\* int(n * 0.90)
IntTimes090(n) ==
    IF n = 0 THEN 0
    ELSE Top(RoundTo53(MulSmall(n, Mant090))) \div 32

\* list(range(n))
IndexList(n) == [i \in 1..n |-> i - 1]

\* indices[:k] and indices[k:]
SliceTo(s, k) == SubSeq(s, 1, Min(k, Len(s)))
SliceFrom(s, k) == SubSeq(s, Min(k, Len(s)) + 1, Len(s))

(***************************************************************************)
(* Data and numeric code the loops call.                                   *)
(***************************************************************************)
\* get_bibtex(dir_path, 'train' | 'test'): example i of a data set is a
\* feature vector (represented by a feature code) and a row of NLabels bits
DataX(ds, i) == IF ds = "train" THEN i ELSE 1000 + 2 * i

DataY(ds, i) ==
    [j \in 1..NLabels |->
        IF ds = "train" THEN (IF (i + j) % 3 = 0 THEN 1 ELSE 0)
        ELSE (IF (i * j) % 4 < 2 THEN 1 ELSE 0)]

\* MyDataset.__getitem__ collated over a list of indices: (inputs, targets)
Batch(ds, idx) ==
    [inputs  |-> [k \in 1..Len(idx) |-> DataX(ds, idx[k])],
     targets |-> [k \in 1..Len(idx) |-> DataY(ds, idx[k])]]

\* FeatureMLP.forward on a batch: one sigmoid output per label, in tenths,
\* a function of the current parameters and of the input alone
forward(params, inputs) ==
    [k \in 1..Len(inputs) |->
        [j \in 1..NLabels |->
            (4 * params.seed + 5 * params.steps + 3 * inputs[k] + 7 * j) % 11]]

\* nn.BCELoss(reduction='sum'): an element's penalty grows with the distance
\* between the output and the 0/1 target; the batch loss is the sum over all
\* rows and all labels
loss_fn(output, targets) ==
    SumSeq([k \in 1..Len(output) |->
        SumSeq([j \in 1..NLabels |->
            IF targets[k][j] = 1 THEN 10 - output[k][j] ELSE output[k][j]])])

\* output.round().int(): torch rounds half to even, so 0.5 becomes 0
round(output) ==
    [k \in 1..Len(output) |->
        [j \in 1..NLabels |-> IF output[k][j] > 5 THEN 1 ELSE 0]]

\* number of cells of two equal-shaped 0/1 matrices with labels[k][j] = t and
\* outputs[k][j] = p
Cells(labels, outputs, t, p) ==
    SumSeq([k \in 1..Len(labels) |->
        Cardinality({j \in 1..NLabels : labels[k][j] = t /\ outputs[k][j] = p})])

\* compute_f1_score(labels, outputs): 2TP / (2TP + FP + FN), 0 when undefined
compute_f1_score(labels, outputs) ==
    LET tp == Cells(labels, outputs, 1, 1)
        fp == Cells(labels, outputs, 0, 1)
        fn == Cells(labels, outputs, 1, 0)
    IN  IF 2 * tp + fp + fn = 0 THEN <<0, 1>> ELSE Rat(2 * tp, 2 * tp + fp + fn)

\* np.mean of a non-empty list of values
mean(vals) == LET s == RatSum(vals) IN Rat(s[1], s[2] * Len(vals))

\* SubsetRandomSampler.__iter__: the subset in a random order
Permuted(subset, rot, rev) ==
    LET n == Len(subset)
    IN  [k \in 1..n |->
            LET p == ((k - 1 + rot) % n) + 1
            IN  subset[IF rev THEN n + 1 - p ELSE p]]

Orders(subset) ==
    IF subset = <<>> THEN {<<>>}
    ELSE {Permuted(subset, rot, rev) :
            rot \in 0..Min(MaxRot, Len(subset) - 1), rev \in BOOLEAN}

\* a chunk that starts one entry early
NextChunkOverlap(order, pos, bs) ==
    SubSeq(order, IF pos = 0 THEN 1 ELSE pos, Min(pos + bs, Len(order)))

\* BatchSampler (drop_last=False): the next at most bs entries of the order
NextChunk(order, pos, bs) == SubSeq(order, pos + 1, Min(pos + bs, Len(order)))

\* a scheduler that decays at every step
StepLREveryStep(lr_now, last) == lr_now \div GammaInv

\* StepLR.get_lr after last_epoch was advanced
StepLR(lr_now, last) ==
    IF last = 0 \/ last % step_size # 0 THEN lr_now ELSE lr_now \div GammaInv

(***************************************************************************)
(* State.                                                                  *)
(***************************************************************************)
VARIABLES
    pc,            \* position of the script
    N,             \* len(inputs) of the training data set
    n_epochs,      \* the bound of the epoch loop
    n_train,       \* self.n_train
    train_subset,  \* indices[:n_train], the train sampler's subset
    valid_subset,  \* indices[n_train:], the valid sampler's subset
    params,        \* the model's learned parameters
    training,      \* the model's mode flag (True after train(), False after eval())
    grad,          \* the batches whose gradients are accumulated in .grad
    lr,            \* the optimizer's learning rate
    last_epoch,    \* the scheduler's step counter
    epoch,         \* the loop variable of the script
    results,       \* the results dictionary
    ret,           \* the script's locals loss_train, loss_valid, mean_f1, loss_test, f1_test
    loader,        \* the running loader iteration: data set, order, position
    batch,         \* the batch being processed: index list, batch_idx, output, loss
    t_loss,        \* the running loss sum of the running call
    t_size,        \* the running example count of the running call
    f1_list,       \* valid()'s list mean_f1
    outputs,       \* test()'s list outputs
    M,             \* len(test_inputs)
    error,         \* the exception that ended the run, or "none"
    artifacts,     \* what the script has handed over: plotted, saved
    hist           \* history: what was drawn, computed and called so far

vars == <<pc, N, n_epochs, n_train, train_subset, valid_subset, params, training,
          grad, lr, last_epoch, epoch, results, ret, loader, batch, t_loss, t_size,
          f1_list, outputs, M, error, artifacts, hist>>

DatasetSizes == (0..SmallN) \cup {MidN, LargeN}
TestSizes == (0..SmallM) \cup {LargeM}

EpochChoices(n) ==
    IF n = LongRunN THEN 1..MaxEpochs
    ELSE IF n <= SmallN THEN 1..ShortEpochs
    ELSE {1}

NoBatch == [idx |-> <<>>, batch_idx |-> 0, output |-> <<>>, loss |-> 0]
NoLoader == [ds |-> "none", order |-> <<>>, pos |-> 0]
NoRet == [loss_train |-> <<0, 1>>, loss_valid |-> <<0, 1>>, mean_f1 |-> <<0, 1>>,
          loss_test |-> <<0, 1>>, f1_test |-> <<0, 1>>]

\* history of the running (or last) call: the batches drawn, their losses,
\* the arguments of each compute_f1_score call, the operations done on the
\* running batch; and of the run: calls started and returned, scheduler steps,
\* the values each train() and valid() call returned, the last optimizer step,
\* the place an exception was raised
NoCallHist == [batches |-> <<>>, losses |-> <<>>, f1_calls |-> <<>>, ops |-> <<>>]
NoHist == [call |-> NoCallHist,
           started  |-> [train |-> 0, valid |-> 0, test |-> 0],
           returned |-> [train |-> 0, valid |-> 0, test |-> 0],
           sched_steps |-> 0,
           produced |-> [loss_train |-> <<>>, loss_valid |-> <<>>, f1_valid |-> <<>>],
           last_step |-> [grad |-> <<>>, lr |-> 0, epoch |-> 0 - 1],
           failed_at |-> "none"]

\* the script after the training data are loaded (line 199), before
\* FeatureNetwork is constructed
Init ==
    /\ pc = "construct"
    /\ N \in DatasetSizes
    /\ n_epochs \in EpochChoices(N)
    /\ params = [seed |-> 0, steps |-> 0]
    /\ n_train = 0
    /\ train_subset = <<>>
    /\ valid_subset = <<>>
    /\ training = TRUE
    /\ grad = <<>>
    /\ lr = LR0
    /\ last_epoch = 0
    /\ epoch = 0
    /\ results = [loss_train |-> <<>>, loss_valid |-> <<>>, f1_valid |-> <<>>]
    /\ ret = NoRet
    /\ loader = NoLoader
    /\ batch = NoBatch
    /\ t_loss = 0
    /\ t_size = 0
    /\ f1_list = <<>>
    /\ outputs = <<>>
    /\ M = 0
    /\ error = "none"
    /\ artifacts = [plotted |-> FALSE, saved |-> FALSE]
    /\ hist = NoHist

(***************************************************************************)
(* FeatureNetwork.__init__ and the script's set-up (lines 201-209).        *)
(***************************************************************************)
Partition(n) ==
    LET k == IntTimes090(n)
        indices == IndexList(n)
    IN  [n_train |-> k, train |-> SliceTo(indices, k), valid |-> SliceFrom(indices, k)]

\* FeatureMLP.__init__: the layers' initial weights are drawn at random
InitialParams == {[seed |-> w, steps |-> 0] : w \in 0..MaxSeed}

Construct ==
    /\ pc = "construct"
    /\ params' \in InitialParams
    /\ n_train' = Partition(N).n_train
    /\ train_subset' = Partition(N).train
    /\ valid_subset' = Partition(N).valid
    /\ results' = [loss_train |-> <<>>, loss_valid |-> <<>>, f1_valid |-> <<>>]
    /\ lr' = LR0
    /\ last_epoch' = 0
    /\ epoch' = 0
    /\ pc' = "train_begin"
    /\ UNCHANGED <<N, n_epochs, training, grad, ret, loader, batch, t_loss, t_size,
                   f1_list, outputs, M, error, artifacts, hist>>

(***************************************************************************)
(* FeatureNetwork.train (lines 94-123).                                    *)
(***************************************************************************)
Log(op) == [hist EXCEPT !.call.ops = Append(@, op)]

\* model.train(); t_loss, t_size = 0, 0; the loader's iterator is created
TrainBegin ==
    /\ pc = "train_begin"
    /\ training' = TRUE
    /\ t_loss' = 0
    /\ t_size' = 0
    /\ \E order \in Orders(train_subset) :
          loader' = [ds |-> "train", order |-> order, pos |-> 0]
    /\ batch' = NoBatch
    /\ hist' = [hist EXCEPT !.call = NoCallHist, !.started.train = @ + 1]
    /\ pc' = "train_next"
    /\ UNCHANGED <<N, n_epochs, n_train, train_subset, valid_subset, params, grad, lr,
                   last_epoch, epoch, results, ret, f1_list, outputs, M, error,
                   artifacts>>

\* the loader yields the next batch; t_size += len(inputs)
Fetch(bs, next_pc) ==
    /\ loader.pos < Len(loader.order)
    /\ LET idx == NextChunk(loader.order, loader.pos, bs)
       IN  /\ batch' = [idx |-> idx, batch_idx |-> Len(hist.call.batches),
                        output |-> <<>>, loss |-> 0]
           /\ loader' = [loader EXCEPT !.pos = @ + Len(idx)]
           /\ t_size' = t_size + Len(Batch(loader.ds, idx).inputs)
           /\ hist' = [hist EXCEPT !.call.batches = Append(@, idx), !.call.ops = <<>>]
    /\ pc' = next_pc

TrainNext ==
    /\ pc = "train_next"
    /\ Fetch(batch_size, "train_zero")
    /\ UNCHANGED <<N, n_epochs, n_train, train_subset, valid_subset, params, training,
                   grad, lr, last_epoch, epoch, results, ret, t_loss, f1_list, outputs,
                   M, error, artifacts>>

\* a batch whose gradients are not zeroed
TrainZeroGradSkipped ==
    /\ pc = "train_zero"
    /\ hist' = Log("zero_grad")
    /\ pc' = "train_forward"
    /\ UNCHANGED <<N, n_epochs, n_train, train_subset, valid_subset, params, training,
                   grad, lr, last_epoch, epoch, results, ret, loader, batch, t_loss,
                   t_size, f1_list, outputs, M, error, artifacts>>

\* self.model.zero_grad()
TrainZeroGrad ==
    /\ pc = "train_zero"
    /\ grad' = <<>>
    /\ hist' = Log("zero_grad")
    /\ pc' = "train_forward"
    /\ UNCHANGED <<N, n_epochs, n_train, train_subset, valid_subset, params, training,
                   lr, last_epoch, epoch, results, ret, loader, batch, t_loss, t_size,
                   f1_list, outputs, M, error, artifacts>>

\* output = self.model(inputs); loss = loss_fn(output, targets); t_loss += loss.item()
TrainForward ==
    /\ pc = "train_forward"
    /\ LET b == Batch(loader.ds, batch.idx)
           output == forward(params, b.inputs)
           loss == loss_fn(output, b.targets)
       IN  /\ batch' = [batch EXCEPT !.output = output, !.loss = loss]
           /\ t_loss' = t_loss + loss
           /\ hist' = [hist EXCEPT !.call.losses = Append(@, loss),
                                   !.call.ops = Append(@, "forward")]
    /\ pc' = "train_backward"
    /\ UNCHANGED <<N, n_epochs, n_train, train_subset, valid_subset, params, training,
                   grad, lr, last_epoch, epoch, results, ret, loader, t_size, f1_list,
                   outputs, M, error, artifacts>>

\* loss.backward(): the batch's gradient is added to .grad
TrainBackward ==
    /\ pc = "train_backward"
    /\ grad' = Append(grad, <<hist.started.train, batch.batch_idx>>)
    /\ hist' = Log("backward")
    /\ pc' = "train_step"
    /\ UNCHANGED <<N, n_epochs, n_train, train_subset, valid_subset, params, training,
                   lr, last_epoch, epoch, results, ret, loader, batch, t_loss, t_size,
                   f1_list, outputs, M, error, artifacts>>

\* self.model.optimizer.step(), then the progress line
TrainStep ==
    /\ pc = "train_step"
    /\ params' = [params EXCEPT !.steps = @ + 1]
    /\ hist' = [hist EXCEPT !.call.ops = Append(@, "step"),
                            !.last_step = [grad |-> grad, lr |-> lr, epoch |-> epoch]]
    /\ pc' = "train_next"
    /\ UNCHANGED <<N, n_epochs, n_train, train_subset, valid_subset, training, grad, lr,
                   last_epoch, epoch, results, ret, loader, batch, t_loss, t_size,
                   f1_list, outputs, M, error, artifacts>>

\* the loss sum divided by the number of batches
TrainResultPerBatch == Rat(t_loss, Len(hist.call.batches))

\* t_loss /= t_size
TrainResult == Rat(t_loss, t_size)

\* the loop is over: t_loss /= t_size; return t_loss
TrainReturn ==
    /\ pc = "train_next"
    /\ loader.pos = Len(loader.order)
    /\ IF t_size = 0
       THEN /\ pc' = "aborted"
            /\ error' = "ZeroDivisionError"
            /\ hist' = [hist EXCEPT !.failed_at = "train_return"]
            /\ UNCHANGED <<ret, loader, batch>>
       ELSE /\ ret' = [ret EXCEPT !.loss_train = TrainResult]
            /\ hist' = [hist EXCEPT !.returned.train = @ + 1,
                                    !.produced.loss_train = Append(@, TrainResult)]
            /\ loader' = NoLoader
            /\ batch' = NoBatch
            /\ pc' = "valid_begin"
            /\ UNCHANGED error
    /\ UNCHANGED <<N, n_epochs, n_train, train_subset, valid_subset, params, training,
                   grad, lr, last_epoch, epoch, results, t_loss, t_size, f1_list,
                   outputs, M, artifacts>>

(***************************************************************************)
(* FeatureNetwork.valid (lines 125-156).                                   *)
(***************************************************************************)
\* self.model.eval(); loss, t_size = 0, 0; mean_f1 = []; the iterator is created
ValidBegin ==
    /\ pc = "valid_begin"
    /\ training' = FALSE
    /\ t_loss' = 0
    /\ t_size' = 0
    /\ f1_list' = <<>>
    /\ \E order \in Orders(valid_subset) :
          loader' = [ds |-> "train", order |-> order, pos |-> 0]
    /\ batch' = NoBatch
    /\ hist' = [hist EXCEPT !.call = NoCallHist, !.started.valid = @ + 1]
    /\ pc' = "valid_next"
    /\ UNCHANGED <<N, n_epochs, n_train, train_subset, valid_subset, params, grad, lr,
                   last_epoch, epoch, results, ret, outputs, M, error, artifacts>>

ValidNext ==
    /\ pc = "valid_next"
    /\ Fetch(batch_size_eval, "valid_forward")
    /\ UNCHANGED <<N, n_epochs, n_train, train_subset, valid_subset, params, training,
                   grad, lr, last_epoch, epoch, results, ret, t_loss, f1_list, outputs,
                   M, error, artifacts>>

\* forward pass under no_grad, loss += loss_fn(...), round, f1 of the batch
ValidForward ==
    /\ pc = "valid_forward"
    /\ LET b == Batch(loader.ds, batch.idx)
           output == forward(params, b.inputs)
           loss == loss_fn(output, b.targets)
           output_in_0_1 == round(output)
           f1 == compute_f1_score(b.targets, output_in_0_1)
       IN  /\ batch' = [batch EXCEPT !.output = output, !.loss = loss]
           /\ t_loss' = t_loss + loss
           /\ f1_list' = Append(f1_list, f1)
           /\ hist' = [hist EXCEPT
                  !.call.losses = Append(@, loss),
                  !.call.ops = Append(@, "forward"),
                  !.call.f1_calls =
                      Append(@, [labels |-> b.targets, outputs |-> output_in_0_1])]
    /\ pc' = "valid_next"
    /\ UNCHANGED <<N, n_epochs, n_train, train_subset, valid_subset, params, training,
                   grad, lr, last_epoch, epoch, results, ret, loader, t_size, outputs,
                   M, error, artifacts>>

\* one F1 value over all the rows seen, and the per-example loss
ValidResultWhole ==
    [loss |-> Rat(t_loss, t_size),
     f1 |-> compute_f1_score(
                Concat([k \in 1..Len(hist.call.f1_calls) |-> hist.call.f1_calls[k].labels]),
                Concat([k \in 1..Len(hist.call.f1_calls) |-> hist.call.f1_calls[k].outputs]))]

\* the mean of the batch F1 values and the per-example loss
ValidResult == [loss |-> Rat(t_loss, t_size), f1 |-> mean(f1_list)]

\* the loop is over: mean_f1 = np.mean(mean_f1); loss /= t_size; return
ValidReturn ==
    /\ pc = "valid_next"
    /\ loader.pos = Len(loader.order)
    /\ IF t_size = 0
       THEN /\ pc' = "aborted"
            /\ error' = "ZeroDivisionError"
            /\ hist' = [hist EXCEPT !.failed_at = "valid_return"]
            /\ UNCHANGED <<ret, loader, batch>>
       ELSE /\ ret' = [ret EXCEPT !.loss_valid = ValidResult.loss,
                                  !.mean_f1 = ValidResult.f1]
            /\ hist' = [hist EXCEPT
                   !.returned.valid = @ + 1,
                   !.produced.loss_valid = Append(@, ValidResult.loss),
                   !.produced.f1_valid = Append(@, ValidResult.f1)]
            /\ loader' = NoLoader
            /\ batch' = NoBatch
            /\ pc' = "sched"
            /\ UNCHANGED error
    /\ UNCHANGED <<N, n_epochs, n_train, train_subset, valid_subset, params, training,
                   grad, lr, last_epoch, epoch, results, t_loss, t_size, f1_list,
                   outputs, M, artifacts>>

(***************************************************************************)
(* The rest of the epoch loop's body (lines 215-219) and its test.         *)
(***************************************************************************)
\* scheduler.step()
SchedulerStep ==
    /\ pc = "sched"
    /\ last_epoch' = last_epoch + 1
    /\ lr' = StepLR(lr, last_epoch + 1)
    /\ hist' = [hist EXCEPT !.sched_steps = @ + 1]
    /\ pc' = "append"
    /\ UNCHANGED <<N, n_epochs, n_train, train_subset, valid_subset, params, training,
                   grad, epoch, results, ret, loader, batch, t_loss, t_size, f1_list,
                   outputs, M, error, artifacts>>

\* an assignment of a one-element list in place of the append
AppendOverwrite(res, key, v) == [res EXCEPT ![key] = <<v>>]

\* results[key].append(v)
AppendTo(res, key, v) == [res EXCEPT ![key] = Append(@, v)]

\* a loop test that lets one more epoch through
LoopContinuesInclusive(e) == e + 1 <= n_epochs

\* for epoch in range(n_epochs): whether another epoch follows epoch e
LoopContinues(e) == e + 1 < n_epochs

\* results['loss_train'].append(loss_train)
AppendLossTrain ==
    /\ pc = "append"
    /\ results' = AppendTo(results, "loss_train", ret.loss_train)
    /\ pc' = "append_valid"
    /\ UNCHANGED <<N, n_epochs, n_train, train_subset, valid_subset, params, training,
                   grad, lr, last_epoch, epoch, ret, loader, batch, t_loss, t_size,
                   f1_list, outputs, M, error, artifacts, hist>>

\* results['loss_valid'].append(loss_valid)
AppendLossValid ==
    /\ pc = "append_valid"
    /\ results' = AppendTo(results, "loss_valid", ret.loss_valid)
    /\ pc' = "append_f1"
    /\ UNCHANGED <<N, n_epochs, n_train, train_subset, valid_subset, params, training,
                   grad, lr, last_epoch, epoch, ret, loader, batch, t_loss, t_size,
                   f1_list, outputs, M, error, artifacts, hist>>

\* results['f1_valid'].append(mean_f1), then the for statement takes the next
\* epoch or leaves the loop
AppendF1Valid ==
    /\ pc = "append_f1"
    /\ results' = AppendTo(results, "f1_valid", ret.mean_f1)
    /\ IF LoopContinues(epoch)
       THEN epoch' = epoch + 1 /\ pc' = "train_begin"
       ELSE epoch' = epoch /\ pc' = "load_test"
    /\ UNCHANGED <<N, n_epochs, n_train, train_subset, valid_subset, params, training,
                   grad, lr, last_epoch, ret, loader, batch, t_loss, t_size, f1_list,
                   outputs, M, error, artifacts, hist>>

(***************************************************************************)
(* The testing phase (lines 221-233) and FeatureNetwork.test (158-188).    *)
(***************************************************************************)
\* get_bibtex(dir_path, 'test') and the sequential test loader
LoadTest ==
    /\ pc = "load_test"
    /\ M' \in TestSizes
    /\ pc' = "test_begin"
    /\ UNCHANGED <<N, n_epochs, n_train, train_subset, valid_subset, params, training,
                   grad, lr, last_epoch, epoch, results, ret, loader, batch, t_loss,
                   t_size, f1_list, outputs, error, artifacts, hist>>

\* the order of a loader built without a sampler: 0, 1, ..., M-1
TestOrder(m) == IndexList(m)

\* self.model.eval(); outputs = []; loss, t_size = 0, 0; the iterator is created
TestBegin ==
    /\ pc = "test_begin"
    /\ training' = FALSE
    /\ t_loss' = 0
    /\ t_size' = 0
    /\ outputs' = <<>>
    /\ loader' = [ds |-> "test", order |-> TestOrder(M), pos |-> 0]
    /\ batch' = NoBatch
    /\ hist' = [hist EXCEPT !.call = NoCallHist, !.started.test = @ + 1]
    /\ pc' = "test_next"
    /\ UNCHANGED <<N, n_epochs, n_train, train_subset, valid_subset, params, grad, lr,
                   last_epoch, epoch, results, ret, f1_list, M, error, artifacts>>

TestNext ==
    /\ pc = "test_next"
    /\ Fetch(batch_size_eval, "test_forward")
    /\ UNCHANGED <<N, n_epochs, n_train, train_subset, valid_subset, params, training,
                   grad, lr, last_epoch, epoch, results, ret, t_loss, f1_list, outputs,
                   M, error, artifacts>>

\* forward pass under no_grad, loss += loss_fn(...), outputs.append(rounded)
TestForward ==
    /\ pc = "test_forward"
    /\ LET b == Batch(loader.ds, batch.idx)
           output == forward(params, b.inputs)
           loss == loss_fn(output, b.targets)
       IN  /\ batch' = [batch EXCEPT !.output = output, !.loss = loss]
           /\ t_loss' = t_loss + loss
           /\ outputs' = Append(outputs, round(output))
           /\ hist' = [hist EXCEPT !.call.losses = Append(@, loss),
                                   !.call.ops = Append(@, "forward")]
    /\ pc' = "test_next"
    /\ UNCHANGED <<N, n_epochs, n_train, train_subset, valid_subset, params, training,
                   grad, lr, last_epoch, epoch, results, ret, loader, t_size, f1_list,
                   M, error, artifacts>>

\* the test_labels argument: the whole label matrix of the test set
test_labels == [i \in 1..M |-> DataY("test", i - 1)]

\* the batches concatenated last to first
TestF1ArgsReversed ==
    [labels |-> test_labels,
     outputs |-> Concat([k \in 1..Len(outputs) |-> outputs[Len(outputs) + 1 - k]])]

\* torch.cat(outputs) and the one compute_f1_score call on it
TestF1Args == [labels |-> test_labels, outputs |-> Concat(outputs)]

\* the loop is over: loss /= t_size; concatenate; f1; return loss, f1
TestReturn ==
    /\ pc = "test_next"
    /\ loader.pos = Len(loader.order)
    /\ IF t_size = 0
       THEN /\ pc' = "aborted"
            /\ error' = "ZeroDivisionError"
            /\ hist' = [hist EXCEPT !.failed_at = "test_return"]
            /\ UNCHANGED <<ret, loader, batch>>
       ELSE /\ ret' = [ret EXCEPT
                  !.loss_test = Rat(t_loss, t_size),
                  !.f1_test = compute_f1_score(TestF1Args.labels, TestF1Args.outputs)]
            /\ hist' = [hist EXCEPT !.returned.test = @ + 1,
                                    !.call.f1_calls = Append(@, TestF1Args)]
            /\ loader' = NoLoader
            /\ batch' = NoBatch
            /\ pc' = "plot"
            /\ UNCHANGED error
    /\ UNCHANGED <<N, n_epochs, n_train, train_subset, valid_subset, params, training,
                   grad, lr, last_epoch, epoch, results, t_loss, t_size, f1_list,
                   outputs, M, artifacts>>

\* plot_results(results)
Plot ==
    /\ pc = "plot"
    /\ artifacts' = [artifacts EXCEPT !.plotted = TRUE]
    /\ pc' = "save"
    /\ UNCHANGED <<N, n_epochs, n_train, train_subset, valid_subset, params, training,
                   grad, lr, last_epoch, epoch, results, ret, loader, batch, t_loss,
                   t_size, f1_list, outputs, M, error, hist>>

\* torch.save(F_Net.model.state_dict(), ...)
Save ==
    /\ pc = "save"
    /\ artifacts' = [artifacts EXCEPT !.saved = TRUE]
    /\ pc' = "done"
    /\ UNCHANGED <<N, n_epochs, n_train, train_subset, valid_subset, params, training,
                   grad, lr, last_epoch, epoch, results, ret, loader, batch, t_loss,
                   t_size, f1_list, outputs, M, error, hist>>

(***************************************************************************)
(* An exception while a batch is processed: nothing catches it.            *)
(***************************************************************************)
BatchPcs == {"train_zero", "train_forward", "train_backward", "train_step",
             "valid_forward", "test_forward"}

\* an exception that is caught, the loop going on with the next batch
RaiseCaught ==
    /\ pc \in BatchPcs
    /\ pc' = (IF pc = "valid_forward" THEN "valid_next"
              ELSE IF pc = "test_forward" THEN "test_next" ELSE "train_next")
    /\ error' = "exception"
    /\ hist' = [hist EXCEPT !.failed_at = pc]
    /\ UNCHANGED <<N, n_epochs, n_train, train_subset, valid_subset, params, training,
                   grad, lr, last_epoch, epoch, results, ret, loader, batch, t_loss,
                   t_size, f1_list, outputs, M, artifacts>>

Raise ==
    /\ pc \in BatchPcs
    /\ pc' = "aborted"
    /\ error' = "exception"
    /\ hist' = [hist EXCEPT !.failed_at = pc]
    /\ UNCHANGED <<N, n_epochs, n_train, train_subset, valid_subset, params, training,
                   grad, lr, last_epoch, epoch, results, ret, loader, batch, t_loss,
                   t_size, f1_list, outputs, M, artifacts>>

Next ==
    \/ Construct
    \/ TrainBegin \/ TrainNext \/ TrainZeroGrad \/ TrainForward \/ TrainBackward
    \/ TrainStep \/ TrainReturn
    \/ ValidBegin \/ ValidNext \/ ValidForward \/ ValidReturn
    \/ SchedulerStep \/ AppendLossTrain \/ AppendLossValid \/ AppendF1Valid
    \/ LoadTest \/ TestBegin \/ TestNext \/ TestForward \/ TestReturn
    \/ Plot \/ Save
    \/ Raise

Spec == Init /\ [][Next]_vars

(***************************************************************************)
(* Properties.                                                             *)
(***************************************************************************)
TrainPcs == {"train_next", "train_zero", "train_forward", "train_backward", "train_step"}
ValidPcs == {"valid_next", "valid_forward"}
TestPcs == {"test_next", "test_forward"}

NoDuplicates(s) == \A i, j \in 1..Len(s) : s[i] = s[j] => i = j

\* the running call is train(): its loop runs, has just returned, or failed
InTrainCall ==
    \/ pc \in TrainPcs
    \/ pc = "valid_begin"
    \/ pc = "aborted" /\ hist.failed_at \in (TrainPcs \cup {"train_return"})

\* train()'s loop has ended
TrainLoopEnded ==
    \/ pc = "train_next" /\ loader.pos = Len(loader.order)
    \/ pc = "valid_begin"
    \/ pc = "aborted" /\ hist.failed_at = "train_return"

\* C1: for every dataset size N, the training subset is the first
\* floor(9N/10) indices in their original order and the validation subset is
\* the remaining indices in order; the two are disjoint, together they are
\* 0..N-1, and their lengths add up to N.
C1_Partition ==
    pc # "construct" =>
        /\ n_train = (9 * N) \div 10
        /\ train_subset = [i \in 1..((9 * N) \div 10) |-> i - 1]
        /\ valid_subset = [i \in 1..(N - (9 * N) \div 10) |-> (9 * N) \div 10 + i - 1]
        /\ Range(train_subset) \cap Range(valid_subset) = {}
        /\ Range(train_subset) \cup Range(valid_subset) = 0..(N - 1)
        /\ Len(train_subset) + Len(valid_subset) = N

\* a data set of ten examples is split into nine and one
C1_Witness ==
    /\ pc = "train_begin"
    /\ N = 10
    /\ Len(train_subset) = 9
    /\ valid_subset = <<9>>

\* C2: in a train() call every index handed to a batch belongs to the
\* training subset and is handed out once; every batch has 1..64 examples and
\* only the last may have fewer than 64; t_size counts the examples handed
\* out, and when the loop ends every index of the subset was handed out and
\* t_size = n_train.
C2_TrainBatches ==
    InTrainCall =>
        LET bs == hist.call.batches
            drawn == Concat(bs)
        IN  /\ \A k \in 1..Len(bs) : Len(bs[k]) >= 1 /\ Len(bs[k]) <= 64
            /\ \A k \in 1..(Len(bs) - 1) : Len(bs[k]) = 64
            /\ NoDuplicates(drawn)
            /\ Range(drawn) \subseteq Range(train_subset)
            /\ t_size = Len(drawn)
            /\ TrainLoopEnded =>
                  /\ Range(drawn) = Range(train_subset)
                  /\ t_size = n_train

\* a train() call that ended after a full batch and a partial batch, drawn in
\* an order that is not the subset's own
C2_Witness ==
    /\ pc = "valid_begin"
    /\ Len(hist.call.batches) = 2
    /\ Len(hist.call.batches[1]) = 64
    /\ Len(hist.call.batches[2]) < 64
    /\ Concat(hist.call.batches) # train_subset

\* the loss of batch k of the call that has just returned, recomputed from the
\* parameters the model had when that batch was processed
LossOfTrainBatch(k) ==
    LET b == Batch("train", hist.call.batches[k])
        then == [params EXCEPT !.steps = @ - Len(hist.call.batches) + k - 1]
    IN  loss_fn(forward(then, b.inputs), b.targets)

TrainReturnsAverage ==
    pc = "valid_begin" =>
        /\ \A k \in 1..Len(hist.call.batches) : hist.call.losses[k] = LossOfTrainBatch(k)
        /\ ret.loss_train[1] * Len(Concat(hist.call.batches))
               = SumSeq(hist.call.losses) * ret.loss_train[2]

TrainDivisionFails == pc = "aborted" /\ hist.failed_at = "train_return"

\* C3 as stated: for every dataset of size N >= 1 train() gets past its final
\* division and returns the sum of the batch losses over the example count.
C3_Original ==
    N >= 1 => (~TrainDivisionFails /\ TrainReturnsAverage)

\* C3 amended: the same for every dataset of size N >= 2, the sizes whose
\* training subset is not empty.
C3_TrainAverage ==
    N >= 2 => (~TrainDivisionFails /\ TrainReturnsAverage)

\* a train() call of two batches has returned, and its value is not the loss
\* sum divided by the number of batches
C3_Witness ==
    /\ pc = "valid_begin"
    /\ N >= 2
    /\ Len(hist.call.batches) = 2
    /\ ret.loss_train # Rat(SumSeq(hist.call.losses), 2)

\* the rounded prediction and the label row of every example of a list of
\* indices of a data set, under the current parameters
PredictionsOf(ds, idx) == round(forward(params, Batch(ds, idx).inputs))
LabelsOf(ds, idx) == Batch(ds, idx).targets

\* C4: when valid() has returned, compute_f1_score was called once per batch,
\* on that batch's targets and rounded outputs; the F1 returned is the sum of
\* those values divided by the number of batches; the loss returned is the
\* sum of the batch losses divided by the number of validation examples.
C4_ValidMeanOfBatchF1 ==
    pc = "sched" =>
        LET bs == hist.call.batches
            f1s == [k \in 1..Len(bs) |->
                       compute_f1_score(LabelsOf("train", bs[k]),
                                        PredictionsOf("train", bs[k]))]
            total == RatSum(f1s)
        IN  /\ Len(hist.call.f1_calls) = Len(bs)
            /\ \A k \in 1..Len(bs) :
                  hist.call.f1_calls[k] = [labels |-> LabelsOf("train", bs[k]),
                                           outputs |-> PredictionsOf("train", bs[k])]
            /\ ret.mean_f1[1] * total[2] * Len(bs) = total[1] * ret.mean_f1[2]
            /\ Range(Concat(bs)) = Range(valid_subset)
            /\ Len(Concat(bs)) = N - n_train
            /\ \A k \in 1..Len(bs) :
                  hist.call.losses[k] =
                      loss_fn(forward(params, Batch("train", bs[k]).inputs),
                              LabelsOf("train", bs[k]))
            /\ ret.loss_valid[1] * (N - n_train)
                   = SumSeq(hist.call.losses) * ret.loss_valid[2]

\* valid() has returned after a full and a smaller batch, and its F1 is not
\* the F1 of the whole validation subset
C4_Witness ==
    /\ pc = "sched"
    /\ Len(hist.call.batches) = 2
    /\ Len(hist.call.batches[2]) < Len(hist.call.batches[1])
    /\ ret.mean_f1 # compute_f1_score(LabelsOf("train", valid_subset),
                                      PredictionsOf("train", valid_subset))

\* C5: while test() loops, compute_f1_score is not called; when it has
\* returned, it was called once, on the whole label matrix of the test set
\* and on the matrix whose row i is the rounded prediction for example i, and
\* the F1 returned is the value of that call.
C5_TestF1Once ==
    /\ pc \in TestPcs => hist.call.f1_calls = <<>>
    /\ pc \in {"plot", "save", "done"} =>
          LET all == [labels |-> [i \in 1..M |-> DataY("test", i - 1)],
                      outputs |-> [i \in 1..M |->
                                     PredictionsOf("test", <<i - 1>>)[1]]]
          IN  /\ hist.call.f1_calls = <<all>>
              /\ ret.f1_test = compute_f1_score(all.labels, all.outputs)

\* test() has returned after several batches and its F1 differs from the
\* mean of the F1 values of the batches
C5_Witness ==
    /\ pc = "plot"
    /\ Len(outputs) >= 2
    /\ ret.f1_test #
          mean([k \in 1..Len(outputs) |->
                   compute_f1_score(LabelsOf("test", hist.call.batches[k]), outputs[k])])

IsPrefix(s, t) == Len(s) <= Len(t) /\ SubSeq(t, 1, Len(s)) = s

AppendPcs == {"append", "append_valid", "append_f1"}

\* the number of epochs whose train() and valid() have returned and whose
\* values have been appended
EpochsDone == IF pc \in AppendPcs \cup {"sched"} THEN hist.returned.valid - 1
              ELSE hist.returned.valid

ResultsMatchEpochs ==
    /\ pc \notin {"append_valid", "append_f1"} =>
          /\ Len(results.loss_train) = EpochsDone
          /\ Len(results.loss_valid) = EpochsDone
          /\ Len(results.f1_valid) = EpochsDone
    /\ pc = "train_begin" => EpochsDone = epoch
    /\ pc \in {"load_test", "test_begin", "plot", "save", "done"} \cup TestPcs
          => EpochsDone = n_epochs
    /\ IsPrefix(results.loss_train, hist.produced.loss_train)
    /\ IsPrefix(results.loss_valid, hist.produced.loss_valid)
    /\ IsPrefix(results.f1_valid, hist.produced.f1_valid)

ResultsOnlyGrow ==
    /\ IsPrefix(results.loss_train, results.loss_train')
    /\ IsPrefix(results.loss_valid, results.loss_valid')
    /\ IsPrefix(results.f1_valid, results.f1_valid')
    /\ Len(results.loss_train') <= Len(results.loss_train) + 1
    /\ Len(results.loss_valid') <= Len(results.loss_valid) + 1
    /\ Len(results.f1_valid') <= Len(results.f1_valid) + 1

\* C6: in every state outside the three appends of an epoch the three lists
\* of results have the same length, the number of completed epochs; entry e
\* of each list is the value train() or valid() returned in epoch e; and a
\* step never changes or removes an entry and adds at most one.
C6_ResultsAppendOnly == [](ResultsMatchEpochs) /\ [][ResultsOnlyGrow]_vars

\* two epochs are complete and their entries differ
C6_Witness ==
    /\ pc = "load_test"
    /\ Len(results.loss_train) = 2
    /\ results.loss_train[1] # results.loss_train[2]
    /\ results.f1_valid[1] # results.f1_valid[2]

AfterLoopPcs == {"load_test", "test_begin", "plot", "save", "done"} \cup TestPcs

\* C7: while train() of an epoch runs, the train() and valid() calls of all
\* earlier epochs have returned and no other call has started; while valid()
\* runs, the epoch's train() has returned; test() starts once, after the
\* train() and valid() of every epoch have returned.
C7_CallOrder ==
    LET s == hist.started
        r == hist.returned
    IN  /\ pc \in TrainPcs =>
              /\ s.train = epoch + 1 /\ r.train = epoch
              /\ s.valid = epoch /\ r.valid = epoch
              /\ s.test = 0
        /\ pc \in ValidPcs =>
              /\ s.train = epoch + 1 /\ r.train = epoch + 1
              /\ s.valid = epoch + 1 /\ r.valid = epoch
              /\ s.test = 0
        /\ pc \in {"train_begin", "construct"} =>
              /\ s.train = epoch /\ r.train = epoch
              /\ s.valid = epoch /\ r.valid = epoch
              /\ s.test = 0
        /\ pc \in AfterLoopPcs =>
              /\ s.train = n_epochs /\ r.train = n_epochs
              /\ s.valid = n_epochs /\ r.valid = n_epochs
        /\ pc \in TestPcs => s.test = 1 /\ r.test = 0
        /\ pc \in {"plot", "save", "done"} => s.test = 1 /\ r.test = 1
        /\ s.test <= 1
        /\ r.train <= s.train /\ s.train <= r.train + 1
        /\ r.valid <= s.valid /\ s.valid <= r.valid + 1
        /\ s.valid <= r.train /\ s.train <= r.valid + 1

\* the second epoch's valid() runs, and later test() runs after two epochs
C7_Witness ==
    /\ pc = "test_forward"
    /\ n_epochs = 2
    /\ hist.returned.valid = 2
    /\ hist.started.test = 1

RECURSIVE Pow10(_)
Pow10(k) == IF k = 0 THEN 1 ELSE 10 * Pow10(k - 1)

\* 1e-3 * 0.1^floor(e/25), in units of 1e-9
RateAt(e) == 1000000 \div Pow10(e \div 25)

\* C8: during the train() and valid() of epoch e the scheduler has been
\* stepped e times and the learning rate is 1e-3 * 0.1^floor(e/25); every
\* optimizer step of epoch e used that rate; after the loop the scheduler has
\* been stepped once per epoch.
C8_LearningRate ==
    /\ pc \in TrainPcs \cup ValidPcs \cup {"train_begin", "valid_begin", "sched"} =>
          hist.sched_steps = epoch /\ lr = RateAt(epoch)
    /\ pc \in AppendPcs => hist.sched_steps = epoch + 1 /\ lr = RateAt(epoch + 1)
    /\ pc \in AfterLoopPcs => hist.sched_steps = n_epochs /\ lr = RateAt(n_epochs)
    /\ hist.last_step.epoch >= 0 => hist.last_step.lr = RateAt(hist.last_step.epoch)

\* an optimizer step of epoch 25 was taken with the decayed rate 1e-4
C8_Witness ==
    /\ pc = "train_next"
    /\ epoch = 25
    /\ hist.last_step.epoch = 25
    /\ hist.last_step.lr = 100000
    /\ lr = 100000

\* the batches a train() call draws
BatchesPerTrain == (n_train + 63) \div 64

ModesAndSteps ==
    /\ pc \in TrainPcs => training
    /\ pc \in ValidPcs \cup TestPcs \cup AppendPcs
                \cup {"sched", "load_test", "test_begin", "plot", "save", "done"}
          => ~training
    /\ pc \in {"train_next", "valid_begin"} =>
          params.steps = (hist.started.train - 1) * BatchesPerTrain + Len(hist.call.batches)
    /\ pc \in TrainPcs \ {"train_next"} =>
          params.steps = (hist.started.train - 1) * BatchesPerTrain
                             + Len(hist.call.batches) - 1

\* construction draws the initial weights; from then on a step that changes
\* the parameters is an optimizer step
ParamsFrame ==
    /\ (pc # "construct" /\ params' # params) =>
          /\ pc = "train_step"
          /\ params'.steps = params.steps + 1
          /\ grad = << <<hist.started.train, batch.batch_idx>> >>
          /\ hist.call.ops = <<"zero_grad", "forward", "backward">>
    /\ pc \in ValidPcs \cup TestPcs \cup {"valid_begin", "test_begin"} =>
          params' = params /\ grad' = grad /\ lr' = lr

\* C9: the parameters change only in the optimizer step of train(), once per
\* training batch, after that batch's zero_grad, forward and backward and
\* with the gradient of that batch alone; valid() and test() change neither
\* parameters nor gradients and leave the model in evaluation mode, train()
\* puts it in training mode.
C9_ParamsOnlyInStep == [](ModesAndSteps) /\ [][ParamsFrame]_vars

\* the second batch of a train() call is about to be stepped with its own
\* gradient only
C9_Witness ==
    /\ pc = "train_step"
    /\ batch.batch_idx = 1
    /\ grad = << <<hist.started.train, 1>> >>
    /\ params.steps >= 1

AbortedForGood ==
    /\ hist.failed_at # "none" => pc = "aborted" /\ error # "none"
    /\ pc = "aborted" =>
          /\ hist.failed_at # "none"
          /\ ~artifacts.plotted /\ ~artifacts.saved
          /\ hist.failed_at \in TrainPcs \cup ValidPcs \cup {"train_return", "valid_return"}
                => /\ Len(results.loss_train) = epoch
                   /\ Len(results.loss_valid) = epoch
                   /\ Len(results.f1_valid) = epoch
                   /\ hist.returned.valid = epoch
                   /\ hist.started.test = 0
          /\ hist.failed_at \in TestPcs \cup {"test_return"}
                => /\ Len(results.loss_train) = n_epochs
                   /\ hist.returned.test = 0
                   /\ ret.f1_test = NoRet.f1_test

\* C10: an exception raised while a batch is processed ends the run: no step
\* follows it, the failing epoch has no entry in results, and neither the
\* plot nor the saved model is produced.
C10_AbortOnException == [](AbortedForGood) /\ [][pc # "aborted"]_vars

\* the second epoch's valid() raised: one epoch is in results, nothing is
\* handed over
C10_Witness ==
    /\ pc = "aborted"
    /\ error = "exception"
    /\ hist.failed_at = "valid_forward"
    /\ epoch = 1
    /\ Len(results.loss_train) = 1

====
